---- MODULE Spec2Model ----
(***************************************************************************)
(* Model of the SNAP loader src/src/tp1_3_2.py: the line-driven record     *)
(* parser of main(), the entity extractor _insert_product, the per-table   *)
(* buffers with _queue_with_flush / _flush, the final flush loop and the   *)
(* post-load statements.                                                   *)
(*                                                                         *)
(* Conventions.  Python None of a string field is the string NONE; an      *)
(* Optional[int] is a sequence of length 0 (None) or 1; a float is held in *)
(* tenths.  A raw input line is a record giving its stripped text by the   *)
(* pieces the code's startswith / split / regex calls cut out of it.       *)
(***************************************************************************)
EXTENDS Integers, Sequences, FiniteSets, TLC

VARIABLES
    input,                        \* the lines of the input file (args.input)
    pos,                          \* index of the next raw line infile yields
    pc,                           \* position of main(): reading, flushing, postload, done, failed
    fi,                           \* index of the final flush loop over INSERT_STATEMENTS
    product_data,                 \* <<>> (None) or <<record>>: the open record
    buffers, counts, thresholds, flush_counters,
    inserted_products, inserted_categories, inserted_customers,
    inserted_product_categories, inserted_similars, inserted_reviews,
    db,                           \* committed rows of the six tables
    rejects,                      \* keys the database refuses, per table (schema constraints)
    sqlLog,                       \* statements sent on the connection, in order
    enq,                          \* history: rows appended to each buffer, in order
    dropped,                      \* history: rows the per-row fallback gave up on
    progress,                     \* history: number of [Carga][Batch] lines per table
    emitted,                      \* history: records handed to _insert_product, in order
    idSeen,                       \* history: positions of the Id: lines seen at dispatch level
    lastRead,                     \* history: what the last step of the read loop consumed
    enqOrder,                     \* history: the rows appended to the buffers, all tables in one sequence
    args,                         \* the command line: which stage runs, and its --db-* values
    reachable,                    \* whether the database server accepts the connection
    conn                          \* what the connect step of main() ended with

vars == <<input, pos, pc, fi, product_data, buffers, counts, thresholds, flush_counters,
          inserted_products, inserted_categories, inserted_customers,
          inserted_product_categories, inserted_similars, inserted_reviews,
          db, rejects, sqlLog, enq, dropped, progress, emitted, idSeen, lastRead,
          enqOrder, args, reachable, conn>>

\* ------------------------------------------------------------------ bounds
\* Scaled-down stand-in for BATCH_SIZE = 5000 (src/src/tp1_3_2.py:17).
BATCH_SIZE == 2
\* Longest input of the free-form family, in raw lines.
MaxLines == 4
\* Most record blocks in an input of the block family.
MaxBlocks == 3

\* ------------------------------------------------------------------ values
NONE == "None"

Falsy(s) == s = NONE \/ s = ""

\* int(token): the integer literals the inputs use.
IntLit == ("0" :> 0) @@ ("1" :> 1) @@ ("2" :> 2) @@ ("3" :> 3) @@ ("5" :> 5) @@ ("-1" :> 0 - 1)

\* str.isdigit()
IsDigit(tok) == tok \in {"0", "1", "2", "3", "5"}

\* float(token), in tenths; a token outside the domain raises ValueError.
FloatLit == ("5" :> 50) @@ ("4.5" :> 45) @@ ("0" :> 0)

\* _normalize_int on a string token
NormalizeIntTok(tok) == IF tok \in DOMAIN IntLit THEN IntLit[tok] ELSE 0

\* _normalize_int / _normalize_float on an Optional number
NormalizeOpt(opt) == IF opt = <<>> THEN 0 ELSE opt[1]

\* ------------------------------------------------------------------ tables
\* INSERT_STATEMENTS, in dict order.
TableOrder == <<"product", "category", "product_category", "customer", "review", "product_similar">>

Tables == {TableOrder[i] : i \in 1..Len(TableOrder)}

\* The conflict target of each INSERT statement.
Key(t, row) ==
    CASE t = "product" -> row[1]
      [] t = "category" -> row[1]
      [] t = "product_category" -> <<row[1], row[2]>>
      [] t = "customer" -> row[1]
      [] t = "review" -> <<row[5], row[6], row[1]>>
      [] t = "product_similar" -> <<row[1], row[2]>>

\* One INSERT ... ON CONFLICT statement applied to the rows of table t.
Upsert(t, rows, row) ==
    IF t \in {"product", "category"}
    THEN {r \in rows : Key(t, r) # Key(t, row)} \cup {row}
    ELSE IF \E r \in rows : Key(t, r) = Key(t, row) THEN rows ELSE rows \cup {row}

\* Whether the database raises on this row.
Rejected(t, row) == Key(t, row) \in rejects[t]

Stmt(op, t, n, r) == [op |-> op, tbl |-> t, n |-> n, r |-> r]

\* The pieces a table name has between underscores.
TableTokens ==
    [t \in Tables |->
        CASE t = "product_category" -> <<"product", "category">>
          [] t = "product_similar" -> <<"product", "similar">>
          [] OTHER -> <<t>>]

\* f"sp_{table}_{flush_counters[table]}" and f"{savepoint}_r{idx}", as the
\* pieces between underscores (the row piece as the letter and the index).
SavepointName(s) ==
    <<"sp">> \o TableTokens[s.tbl] \o <<ToString(s.n)>>
        \o (IF s.r >= 0 THEN <<"r", ToString(s.r)>> ELSE <<>>)

\* ------------------------------------------------------------------ flush engine
\* The loader's mutable state as one value, so that the sequential code of
\* _insert_product can be composed step by step.
Cur ==
    [buffers |-> buffers, counts |-> counts, thresholds |-> thresholds,
     flush_counters |-> flush_counters,
     inserted_products |-> inserted_products,
     inserted_categories |-> inserted_categories,
     inserted_customers |-> inserted_customers,
     inserted_product_categories |-> inserted_product_categories,
     inserted_similars |-> inserted_similars,
     inserted_reviews |-> inserted_reviews,
     db |-> db, sqlLog |-> sqlLog, enq |-> enq, dropped |-> dropped,
     progress |-> progress, enqOrder |-> enqOrder]

Store(st) ==
    /\ buffers' = st.buffers
    /\ counts' = st.counts
    /\ thresholds' = st.thresholds
    /\ flush_counters' = st.flush_counters
    /\ inserted_products' = st.inserted_products
    /\ inserted_categories' = st.inserted_categories
    /\ inserted_customers' = st.inserted_customers
    /\ inserted_product_categories' = st.inserted_product_categories
    /\ inserted_similars' = st.inserted_similars
    /\ inserted_reviews' = st.inserted_reviews
    /\ db' = st.db
    /\ sqlLog' = st.sqlLog
    /\ enq' = st.enq
    /\ dropped' = st.dropped
    /\ progress' = st.progress
    /\ enqOrder' = st.enqOrder

loaderVars == <<buffers, counts, thresholds, flush_counters,
                inserted_products, inserted_categories, inserted_customers,
                inserted_product_categories, inserted_similars, inserted_reviews,
                db, sqlLog, enq, dropped, progress, enqOrder>>

\* execute_batch: every row of the batch through the table's INSERT statement.
RECURSIVE ExecuteBatch(_, _, _, _)
ExecuteBatch(t, rows, batch, i) ==
    IF i > Len(batch) THEN rows
    ELSE ExecuteBatch(t, Upsert(t, rows, batch[i]), batch, i + 1)

BatchFails(t, batch) == \E i \in 1..Len(batch) : Rejected(t, batch[i])

\* One iteration of the per-row fallback loop; sp is the table as it was at
\* the outer savepoint, acc = [rows, inserted, log, lost].
FallbackRowOuterRollback(t, n, sp, batch, i, acc) ==
    IF Rejected(t, batch[i])
    THEN [rows |-> sp, inserted |-> acc.inserted,
          log |-> acc.log \o <<Stmt("SAVEPOINT", t, n, i - 1), Stmt("INSERT_FAILED", t, n, i - 1),
                               Stmt("ROLLBACK TO", t, n, 0 - 1)>>,
          lost |-> Append(acc.lost, batch[i])]
    ELSE [rows |-> Upsert(t, acc.rows, batch[i]), inserted |-> acc.inserted + 1,
          log |-> acc.log \o <<Stmt("SAVEPOINT", t, n, i - 1), Stmt("INSERT", t, n, i - 1),
                               Stmt("RELEASE", t, n, i - 1)>>,
          lost |-> acc.lost]

FallbackRowLeavesOpen(t, n, sp, batch, i, acc) ==
    IF Rejected(t, batch[i])
    THEN [rows |-> acc.rows, inserted |-> acc.inserted,
          log |-> acc.log \o <<Stmt("SAVEPOINT", t, n, i - 1), Stmt("INSERT_FAILED", t, n, i - 1),
                               Stmt("ROLLBACK TO", t, n, i - 1)>>,
          lost |-> Append(acc.lost, batch[i])]
    ELSE [rows |-> Upsert(t, acc.rows, batch[i]), inserted |-> acc.inserted + 1,
          log |-> acc.log \o <<Stmt("SAVEPOINT", t, n, i - 1), Stmt("INSERT", t, n, i - 1)>>,
          lost |-> acc.lost]

FallbackRowCountsFailed(t, n, sp, batch, i, acc) ==
    IF Rejected(t, batch[i])
    THEN [rows |-> acc.rows, inserted |-> acc.inserted + 1,
          log |-> acc.log \o <<Stmt("SAVEPOINT", t, n, i - 1), Stmt("INSERT_FAILED", t, n, i - 1),
                               Stmt("ROLLBACK TO", t, n, i - 1)>>,
          lost |-> Append(acc.lost, batch[i])]
    ELSE [rows |-> Upsert(t, acc.rows, batch[i]), inserted |-> acc.inserted + 1,
          log |-> acc.log \o <<Stmt("SAVEPOINT", t, n, i - 1), Stmt("INSERT", t, n, i - 1),
                               Stmt("RELEASE", t, n, i - 1)>>,
          lost |-> acc.lost]

FallbackRow(t, n, sp, batch, i, acc) ==
    IF Rejected(t, batch[i])
    THEN [rows |-> acc.rows, inserted |-> acc.inserted,
          log |-> acc.log \o <<Stmt("SAVEPOINT", t, n, i - 1), Stmt("INSERT_FAILED", t, n, i - 1),
                               Stmt("ROLLBACK TO", t, n, i - 1)>>,
          lost |-> Append(acc.lost, batch[i])]
    ELSE [rows |-> Upsert(t, acc.rows, batch[i]), inserted |-> acc.inserted + 1,
          log |-> acc.log \o <<Stmt("SAVEPOINT", t, n, i - 1), Stmt("INSERT", t, n, i - 1),
                               Stmt("RELEASE", t, n, i - 1)>>,
          lost |-> acc.lost]

RECURSIVE FallbackLoop(_, _, _, _, _, _)
FallbackLoop(t, n, sp, batch, i, acc) ==
    IF i > Len(batch) THEN acc
    ELSE FallbackLoop(t, n, sp, batch, i + 1, FallbackRow(t, n, sp, batch, i, acc))

\* The while loop that logs progress lines and raises the threshold.
RECURSIVE CrossingsStrict(_, _)
CrossingsStrict(count, threshold) ==
    IF count > threshold THEN 1 + CrossingsStrict(count, threshold + BATCH_SIZE) ELSE 0

RECURSIVE Crossings(_, _)
Crossings(count, threshold) ==
    IF count >= threshold THEN 1 + Crossings(count, threshold + BATCH_SIZE) ELSE 0

\* _flush(table)
Flush(st, t) ==
    LET batch == st.buffers[t]
        n == st.flush_counters[t]
        sp == st.db[t]
        fb == FallbackLoop(t, n, sp, batch, 1,
                  [rows |-> sp, inserted |-> 0,
                   log |-> <<Stmt("SAVEPOINT", t, n, 0 - 1), Stmt("BATCH_FAILED", t, n, 0 - 1),
                             Stmt("ROLLBACK TO", t, n, 0 - 1)>>,
                   lost |-> <<>>])
        ok == ~BatchFails(t, batch)
        rows == IF ok THEN ExecuteBatch(t, sp, batch, 1) ELSE fb.rows
        inserted_now == IF ok THEN Len(batch) ELSE fb.inserted
        log == IF ok
               THEN <<Stmt("SAVEPOINT", t, n, 0 - 1), Stmt("BATCH", t, n, 0 - 1),
                      Stmt("RELEASE", t, n, 0 - 1)>>
               ELSE Append(fb.log, Stmt("RELEASE", t, n, 0 - 1))
        count == st.counts[t] + inserted_now
        k == Crossings(count, st.thresholds[t])
    IN  IF batch = <<>> THEN st
        ELSE [st EXCEPT
                !.flush_counters[t] = n + 1,
                !.db[t] = rows,
                !.sqlLog = @ \o log \o <<Stmt("COMMIT", t, n, 0 - 1)>>,
                !.counts[t] = count,
                !.buffers[t] = <<>>,
                !.dropped[t] = @ \o (IF ok THEN <<>> ELSE fb.lost),
                !.progress[t] = @ + k,
                !.thresholds[t] = @ + k * BATCH_SIZE]

\* _queue_with_flush(table, params, buffers, flush)
QueueWithFlushLate(st, t, params) ==
    LET s1 == [st EXCEPT !.buffers[t] = Append(@, params), !.enq[t] = Append(@, params),
                         !.enqOrder = Append(@, <<t, params>>)]
    IN  IF Len(s1.buffers[t]) > BATCH_SIZE THEN Flush(s1, t) ELSE s1

QueueWithFlush(st, t, params) ==
    LET s1 == [st EXCEPT !.buffers[t] = Append(@, params), !.enq[t] = Append(@, params),
                         !.enqOrder = Append(@, <<t, params>>)]
    IN  IF Len(s1.buffers[t]) >= BATCH_SIZE THEN Flush(s1, t) ELSE s1

\* ------------------------------------------------------------------ entity extractor
\* _new_product_data()
NewProductData ==
    [asin |-> NONE, title |-> NONE, group |-> NONE, salesrank |-> <<>>,
     total_reviews |-> <<>>, downloaded |-> <<>>, avg_rating |-> <<>>,
     categories |-> <<>>, similar |-> <<>>, reviews |-> <<>>]

\* _ensure_product_defaults: <<>> for None, else <<the product row>>.
EnsureProductDefaultsNoAsinCheck(pd) ==
    << <<pd.asin,
         IF Falsy(pd.title) THEN "Unknown title" ELSE pd.title,
         IF Falsy(pd.group) THEN "Unknown" ELSE pd.group,
         NormalizeOpt(pd.salesrank),
         NormalizeOpt(pd.total_reviews),
         NormalizeOpt(pd.downloaded),
         NormalizeOpt(pd.avg_rating)>> >>

EnsureProductDefaults(pd) ==
    IF Falsy(pd.asin) THEN <<>>
    ELSE << <<pd.asin,
              IF Falsy(pd.title) THEN "Unknown title" ELSE pd.title,
              IF Falsy(pd.group) THEN "Unknown" ELSE pd.group,
              NormalizeOpt(pd.salesrank),
              NormalizeOpt(pd.total_reviews),
              NormalizeOpt(pd.downloaded),
              NormalizeOpt(pd.avg_rating)>> >>

\* int(x) if x.isdigit() else None
DigitOpt(tok) == IF IsDigit(tok) THEN <<IntLit[tok]>> ELSE <<>>

\* The product block of _insert_product.
InsertProductRowNoCheck(st, row) ==
    QueueWithFlush([st EXCEPT !.inserted_products = @ \cup {row[1]}], "product", row)

InsertProductRow(st, row) ==
    IF row[1] \notin st.inserted_products
    THEN QueueWithFlush([st EXCEPT !.inserted_products = @ \cup {row[1]}], "product", row)
    ELSE st

\* One segment of a path: the body of the inner for loop.
InsertSegmentNoSet(st, path, idx) ==
    LET parent_id == IF idx > 1 THEN DigitOpt(path[idx - 1].cid) ELSE <<>>
        cat_id_val == DigitOpt(path[idx].cid)
    IN  IF cat_id_val = <<>> THEN st
        ELSE QueueWithFlush([st EXCEPT !.inserted_categories = @ \cup {cat_id_val[1]}],
                            "category", <<cat_id_val[1], path[idx].name, parent_id>>)

InsertSegmentChildAsParent(st, path, idx) ==
    LET parent_id == IF idx < Len(path) THEN DigitOpt(path[idx + 1].cid) ELSE <<>>
        cat_id_val == DigitOpt(path[idx].cid)
    IN  IF cat_id_val = <<>> THEN st
        ELSE IF cat_id_val[1] \notin st.inserted_categories
        THEN QueueWithFlush([st EXCEPT !.inserted_categories = @ \cup {cat_id_val[1]}],
                            "category", <<cat_id_val[1], path[idx].name, parent_id>>)
        ELSE st

InsertSegment(st, path, idx) ==
    LET parent_id == IF idx > 1 THEN DigitOpt(path[idx - 1].cid) ELSE <<>>
        cat_id_val == DigitOpt(path[idx].cid)
    IN  IF cat_id_val = <<>> THEN st
        ELSE IF cat_id_val[1] \notin st.inserted_categories
        THEN QueueWithFlush([st EXCEPT !.inserted_categories = @ \cup {cat_id_val[1]}],
                            "category", <<cat_id_val[1], path[idx].name, parent_id>>)
        ELSE st

RECURSIVE InsertSegments(_, _, _)
InsertSegments(st, path, idx) ==
    IF idx > Len(path) THEN st
    ELSE InsertSegments(InsertSegment(st, path, idx), path, idx + 1)

\* The leaf link of one path.
InsertLeafRoot(st, asin, path) ==
    LET leaf_id == DigitOpt(path[1].cid)
        pair == <<asin, leaf_id[1]>>
    IN  IF leaf_id = <<>> THEN st
        ELSE IF pair \notin st.inserted_product_categories
        THEN QueueWithFlush([st EXCEPT !.inserted_product_categories = @ \cup {pair}],
                            "product_category", pair)
        ELSE st

InsertLeaf(st, asin, path) ==
    LET leaf_id == DigitOpt(path[Len(path)].cid)
        pair == <<asin, leaf_id[1]>>
    IN  IF leaf_id = <<>> THEN st
        ELSE IF pair \notin st.inserted_product_categories
        THEN QueueWithFlush([st EXCEPT !.inserted_product_categories = @ \cup {pair}],
                            "product_category", pair)
        ELSE st

\* The loop over product_data["categories"].
RECURSIVE InsertCategories(_, _, _, _)
InsertCategories(st, asin, paths, i) ==
    IF i > Len(paths) THEN st
    ELSE IF paths[i] = <<>> THEN InsertCategories(st, asin, paths, i + 1)
    ELSE InsertCategories(InsertLeaf(InsertSegments(st, paths[i], 1), asin, paths[i]),
                          asin, paths, i + 1)

\* One iteration of the loop over product_data["similar"].
InsertSimilar(st, asin, sim) ==
    LET pair == <<asin, sim>>
    IN  IF sim = "" THEN st
        ELSE IF pair \notin st.inserted_similars
        THEN QueueWithFlush([st EXCEPT !.inserted_similars = @ \cup {pair}],
                            "product_similar", pair)
        ELSE st

RECURSIVE InsertSimilars(_, _, _, _)
InsertSimilars(st, asin, sims, i) ==
    IF i > Len(sims) THEN st
    ELSE InsertSimilars(InsertSimilar(st, asin, sims[i]), asin, sims, i + 1)

\* One iteration of the loop over product_data["reviews"].
InsertReview(st, asin, rev) ==
    LET cust_id == rev.customer
        s1 == IF cust_id \notin st.inserted_customers
              THEN QueueWithFlush([st EXCEPT !.inserted_customers = @ \cup {cust_id}],
                                  "customer", <<cust_id>>)
              ELSE st
        review_key == <<asin, cust_id, rev.date>>
    IN  IF Falsy(cust_id) THEN st
        ELSE IF Falsy(rev.date) THEN s1
        ELSE IF review_key \in s1.inserted_reviews THEN s1
        ELSE QueueWithFlush([s1 EXCEPT !.inserted_reviews = @ \cup {review_key}], "review",
                            <<rev.date, rev.rating, rev.votes, rev.helpful, asin, cust_id>>)

RECURSIVE InsertReviews(_, _, _, _)
InsertReviews(st, asin, revs, i) ==
    IF i > Len(revs) THEN st
    ELSE InsertReviews(InsertReview(st, asin, revs[i]), asin, revs, i + 1)

\* _insert_product(product_data, ...)
InsertProductCategoriesFirst(st, pd) ==
    LET product_defaults == EnsureProductDefaults(pd)
        row == product_defaults[1]
        asin == row[1]
        s1 == InsertCategories(st, asin, pd.categories, 1)
        s2 == InsertProductRow(s1, row)
        s3 == InsertSimilars(s2, asin, pd.similar, 1)
    IN  IF product_defaults = <<>> THEN st
        ELSE InsertReviews(s3, asin, pd.reviews, 1)

InsertProductSkipsRepeat(st, pd) ==
    LET product_defaults == EnsureProductDefaults(pd)
        row == product_defaults[1]
        asin == row[1]
        s1 == InsertProductRow(st, row)
        s2 == InsertCategories(s1, asin, pd.categories, 1)
        s3 == InsertSimilars(s2, asin, pd.similar, 1)
    IN  IF product_defaults = <<>> THEN st
        ELSE IF asin \in st.inserted_products THEN st
        ELSE InsertReviews(s3, asin, pd.reviews, 1)

InsertProduct(st, pd) ==
    LET product_defaults == EnsureProductDefaults(pd)
        row == product_defaults[1]
        asin == row[1]
        s1 == InsertProductRow(st, row)
        s2 == InsertCategories(s1, asin, pd.categories, 1)
        s3 == InsertSimilars(s2, asin, pd.similar, 1)
    IN  IF product_defaults = <<>> THEN st
        ELSE InsertReviews(s3, asin, pd.reviews, 1)

\* ------------------------------------------------------------------ input lines
\* A raw line, by what the parser's string operations make of it:
\*   k     which branch of the dispatch chain line.strip() takes ("blank" when
\*         it is empty, "other" when no startswith test matches);
\*   text  line.split(":", 1)[1].strip();
\*   toks  line.split()[1:];
\*   segs  the (name, cid) pairs the path-line code cuts out of the line;
\*   total, downloaded, avg  the groups of the three re.search calls ("" when
\*         the pattern does not match);
\*   rev   _parse_review_line(line): <<>> for None, else <<the entry>>.
Ln(k, raw) ==
    [k |-> k, raw |-> raw, text |-> "", toks |-> <<>>,
     segs |-> <<[name |-> raw, cid |-> ""]>>,
     total |-> "", downloaded |-> "", avg |-> "", rev |-> <<>>]

Seg(name, cid) == [name |-> name, cid |-> cid]

Review(date, customer, rating, votes, helpful) ==
    [date |-> date, customer |-> customer, rating |-> rating, votes |-> votes,
     helpful |-> helpful]

LBlank == [Ln("blank", "") EXCEPT !.segs = <<>>]
LHeader == Ln("other", "# Full information about Amazon Share the Love products")
LId == Ln("Id:", "Id: 1")
LAsinA == [Ln("ASIN:", "ASIN: A") EXCEPT !.text = "A"]
LAsinB == [Ln("ASIN:", "ASIN: B") EXCEPT !.text = "B"]
LAsinEmpty == Ln("ASIN:", "ASIN:")
LTitle == [Ln("title:", "title: T") EXCEPT !.text = "T"]
LDiscontinued == Ln("discontinued", "discontinued product")
LGroup == [Ln("group:", "group: Book") EXCEPT !.text = "Book"]
LSalesrank5 == [Ln("salesrank:", "salesrank: 5") EXCEPT !.text = "5"]
LSalesrankX == [Ln("salesrank:", "salesrank: n/a") EXCEPT !.text = "n/a"]
LSimilar2BC == [Ln("similar:", "similar: 2 B C") EXCEPT !.toks = <<"2", "B", "C">>]
LSimilar1A == [Ln("similar:", "similar: 1 A") EXCEPT !.toks = <<"1", "A">>]
LSimilar2AB == [Ln("similar:", "similar: 2 A B") EXCEPT !.toks = <<"2", "A", "B">>]
LSimilar1BC == [Ln("similar:", "similar: 1 B C") EXCEPT !.toks = <<"1", "B", "C">>]
LSimilar0B == [Ln("similar:", "similar: 0 B") EXCEPT !.toks = <<"0", "B">>]
LSimilarXB == [Ln("similar:", "similar: x B") EXCEPT !.toks = <<"x", "B">>]
LSimilarBare == Ln("similar:", "similar:")
LCategories1 == [Ln("categories:", "categories: 1") EXCEPT !.toks = <<"1">>]
LCategories2 == [Ln("categories:", "categories: 2") EXCEPT !.toks = <<"2">>]
LCategories0 == [Ln("categories:", "categories: 0") EXCEPT !.toks = <<"0">>]
LCategoriesBare == Ln("categories:", "categories:")
LPathBooksFiction ==
    [Ln("other", "|Books[1]|Fiction[2]") EXCEPT !.segs = <<Seg("Books", "1"), Seg("Fiction", "2")>>]
LPathNovelsBooks ==
    [Ln("other", "|Novels[2]|Libri[1]") EXCEPT !.segs = <<Seg("Novels", "2"), Seg("Libri", "1")>>]
LPathMusic ==
    [Ln("other", "|Music[3]|Misc[x]|Live") EXCEPT
        !.segs = <<Seg("Music", "3"), Seg("Misc", "x"), Seg("Live", "")>>]
LPathRock ==
    [Ln("other", "|Music[3]|Rock[5]") EXCEPT !.segs = <<Seg("Music", "3"), Seg("Rock", "5")>>]
LPathRockRock ==
    [Ln("other", "|Rock[5]|Rock[5]|Live[3]") EXCEPT
        !.segs = <<Seg("Rock", "5"), Seg("Rock", "5"), Seg("Live", "3")>>]
LReviews2 ==
    [Ln("reviews:", "reviews: total: 2 downloaded: 2 avg rating: 4.5") EXCEPT
        !.total = "2", !.downloaded = "2", !.avg = "4.5"]
LReviews1 ==
    [Ln("reviews:", "reviews: total: 3 downloaded: 1 avg rating: 5") EXCEPT
        !.total = "3", !.downloaded = "1", !.avg = "5"]
LReviews0 ==
    [Ln("reviews:", "reviews: total: 0 downloaded: 0 avg rating: 0") EXCEPT
        !.total = "0", !.downloaded = "0", !.avg = "0"]
LReviewsBare == Ln("reviews:", "reviews:")
LReviewsBadAvg ==
    [Ln("reviews:", "reviews: total: 1 downloaded: 1 avg rating: 4.5.1") EXCEPT
        !.total = "1", !.downloaded = "1", !.avg = "4.5.1"]
LReviewC1 ==
    [Ln("other", "2024-01-01 customer: C1 rating: 5 votes: 2 helpful: 1") EXCEPT
        !.rev = <<Review("2024-01-01", "C1", 5, 2, 1)>>]
LReviewC2 ==
    [Ln("other", "2024-01-01 cutomer: C2 rating: 3 votes: 0 helpful: 0") EXCEPT
        !.rev = <<Review("2024-01-01", "C2", 3, 0, 0)>>]
LReviewC1Again ==
    [Ln("other", "2024-01-01 customer: C1 rating: 1 votes: 5 helpful: 5") EXCEPT
        !.rev = <<Review("2024-01-01", "C1", 1, 5, 5)>>]
LReviewBad == Ln("other", "2024-01-01 customer: C1 rating: five")

\* ------------------------------------------------------------------ record parser
Min(a, b) == IF a < b THEN a ELSE b

Reading == pc = "reading" /\ pos <= Len(input)

Line == input[pos]

Consumed(k, declared, taken) == [k |-> k, at |-> pos, declared |-> declared, taken |-> taken]

parserFrame == UNCHANGED <<input, rejects, fi, args, reachable, conn>>

\* A step of the read loop that changes neither the open record nor the loader.
SkipLine(k) ==
    /\ pos' = pos + 1
    /\ lastRead' = Consumed(k, 0, 0)
    /\ UNCHANGED <<pc, product_data, emitted, idSeen>>
    /\ UNCHANGED loaderVars
    /\ parserFrame

\* `if not line: continue`
SkipBlank ==
    /\ Reading
    /\ Line.k = "blank"
    /\ SkipLine("blank")

\* The `Id:` branch: close the open record, open a new one.
ReadId ==
    /\ Reading
    /\ Line.k = "Id:"
    /\ IF product_data # <<>>
       THEN /\ Store(InsertProduct(Cur, product_data[1]))
            /\ emitted' = Append(emitted, product_data[1])
       ELSE /\ UNCHANGED loaderVars
            /\ emitted' = emitted
    /\ product_data' = <<NewProductData>>
    /\ idSeen' = Append(idSeen, pos)
    /\ pos' = pos + 1
    /\ lastRead' = Consumed("Id:", 0, 0)
    /\ UNCHANGED pc
    /\ parserFrame

\* `if product_data is None: continue`
SkipNoRecord ==
    /\ Reading
    /\ Line.k \notin {"blank", "Id:"}
    /\ product_data = <<>>
    /\ SkipLine("none")

\* A branch that only assigns fields of the open record.
SetFields(k, pd) ==
    /\ product_data' = <<pd>>
    /\ pos' = pos + 1
    /\ lastRead' = Consumed(k, 0, 0)
    /\ UNCHANGED <<pc, emitted, idSeen>>
    /\ UNCHANGED loaderVars
    /\ parserFrame

InRecord(k) == Reading /\ product_data # <<>> /\ Line.k = k

ReadASIN == InRecord("ASIN:") /\ SetFields("ASIN:", [product_data[1] EXCEPT !.asin = Line.text])

ReadTitle == InRecord("title:") /\ SetFields("title:", [product_data[1] EXCEPT !.title = Line.text])

ReadDiscontinued ==
    /\ InRecord("discontinued")
    /\ SetFields("discontinued", [product_data[1] EXCEPT !.title = "Discontinued product"])

ReadGroup == InRecord("group:") /\ SetFields("group:", [product_data[1] EXCEPT !.group = Line.text])

ReadSalesrank ==
    /\ InRecord("salesrank:")
    /\ SetFields("salesrank:", [product_data[1] EXCEPT !.salesrank = <<NormalizeIntTok(Line.text)>>])

\* The similar: branch: parts[2:2 + count_sim] if count_sim > 0 else parts[2:]
SimilarOf(toks) ==
    LET count_sim == NormalizeIntTok(toks[1])
    IN  IF count_sim > 0
        THEN SubSeq(toks, 2, Min(1 + count_sim, Len(toks)))
        ELSE SubSeq(toks, 2, Len(toks))

ReadSimilar ==
    /\ InRecord("similar:")
    /\ SetFields("similar:",
                 IF Len(Line.toks) >= 1
                 THEN [product_data[1] EXCEPT !.similar = SimilarOf(Line.toks)]
                 ELSE product_data[1])

\* How many of the n lines a counted sub-block asks for the stream still has.
Taken(n) == IF n <= 0 THEN 0 ELSE Min(n, Len(input) - pos)

\* The paths the categories: loop appends from the raw lines it read.
PathsOf(lines) ==
    LET kept == SelectSeq(lines, LAMBDA l : l.k # "blank" /\ l.segs # <<>>)
    IN  [i \in 1..Len(kept) |-> kept[i].segs]

NumPaths(line) == IF Len(line.toks) >= 1 THEN NormalizeIntTok(line.toks[1]) ELSE 0

\* The lines of a counted sub-block up to the first line that starts with Id:.
BeforeMarker(n) ==
    LET stops == {i \in 1..n : input[pos + i].k = "Id:"}
    IN  IF stops = {} THEN n ELSE (CHOOSE i \in stops : \A j \in stops : i <= j) - 1

ReadCategoriesStopAtMarker ==
    /\ InRecord("categories:")
    /\ LET taken == BeforeMarker(Taken(NumPaths(Line)))
           lines == SubSeq(input, pos + 1, pos + taken)
       IN  /\ product_data' = <<[product_data[1] EXCEPT !.categories = @ \o PathsOf(lines)]>>
           /\ pos' = pos + 1 + taken
           /\ lastRead' = Consumed("categories:", NumPaths(Line), taken)
    /\ UNCHANGED <<pc, emitted, idSeen>>
    /\ UNCHANGED loaderVars
    /\ parserFrame

ReadCategories ==
    /\ InRecord("categories:")
    /\ LET taken == Taken(NumPaths(Line))
           lines == SubSeq(input, pos + 1, pos + taken)
       IN  /\ product_data' = <<[product_data[1] EXCEPT !.categories = @ \o PathsOf(lines)]>>
           /\ pos' = pos + 1 + taken
           /\ lastRead' = Consumed("categories:", NumPaths(Line), taken)
    /\ UNCHANGED <<pc, emitted, idSeen>>
    /\ UNCHANGED loaderVars
    /\ parserFrame

\* int(m.group(1)) if m else None
IntGroup(tok) == IF tok = "" THEN <<>> ELSE <<IntLit[tok]>>

\* The entries the reviews: loop appends from the raw lines it read.
ReviewsOf(lines) ==
    LET kept == SelectSeq(lines, LAMBDA l : l.rev # <<>>)
    IN  [i \in 1..Len(kept) |-> kept[i].rev[1]]

\* float(m_avg.group(1)) raises ValueError
AvgRaises(line) == line.avg # "" /\ line.avg \notin DOMAIN FloatLit

\* `except Exception` around the read loop: conn.close(); return 1.  Closing
\* the connection discards only what was sent after the last commit, and
\* every flush ends with its commit.
ExceptHandlerRollsBack ==
    /\ pc' = "aborted"
    /\ db' = [t \in Tables |-> {}]
    /\ UNCHANGED <<buffers, counts, thresholds, flush_counters,
                   inserted_products, inserted_categories, inserted_customers,
                   inserted_product_categories, inserted_similars, inserted_reviews,
                   sqlLog, enq, dropped, progress, enqOrder>>

ExceptHandler ==
    /\ pc' = "aborted"
    /\ UNCHANGED loaderVars

ReadReviews ==
    /\ InRecord("reviews:")
    /\ LET hdr == [product_data[1] EXCEPT !.total_reviews = IntGroup(Line.total),
                                          !.downloaded = IntGroup(Line.downloaded)]
           num_to_read == NormalizeOpt(hdr.downloaded)
           taken == Taken(num_to_read)
           lines == SubSeq(input, pos + 1, pos + taken)
       IN  IF AvgRaises(Line)
           THEN /\ product_data' = <<hdr>>
                /\ pos' = pos + 1
                /\ ExceptHandler
                /\ lastRead' = Consumed("reviews:", num_to_read, 0)
           ELSE /\ product_data' =
                       <<[hdr EXCEPT !.avg_rating = IF Line.avg = "" THEN <<>> ELSE <<FloatLit[Line.avg]>>,
                                     !.reviews = @ \o ReviewsOf(lines)]>>
                /\ pos' = pos + 1 + taken
                /\ pc' = pc
                /\ UNCHANGED loaderVars
                /\ lastRead' = Consumed("reviews:", num_to_read, taken)
    /\ UNCHANGED <<emitted, idSeen>>
    /\ parserFrame

\* A line no branch of the chain matches.
IgnoreOther ==
    /\ InRecord("other")
    /\ SkipLine("other")

\* The for loop over infile ends: close the last open record.
EndOfStreamNoClose ==
    /\ pc = "reading"
    /\ pos > Len(input)
    /\ UNCHANGED loaderVars
    /\ emitted' = emitted
    /\ pc' = "flushing"
    /\ fi' = 1
    /\ lastRead' = Consumed("eof", 0, 0)
    /\ UNCHANGED <<input, rejects, pos, product_data, idSeen, args, reachable, conn>>

EndOfStream ==
    /\ pc = "reading"
    /\ pos > Len(input)
    /\ IF product_data # <<>>
       THEN /\ Store(InsertProduct(Cur, product_data[1]))
            /\ emitted' = Append(emitted, product_data[1])
       ELSE /\ UNCHANGED loaderVars
            /\ emitted' = emitted
    /\ pc' = "flushing"
    /\ fi' = 1
    /\ lastRead' = Consumed("eof", 0, 0)
    /\ UNCHANGED <<input, rejects, pos, product_data, idSeen, args, reachable, conn>>

\* ------------------------------------------------------------------ end of run
\* The order of the final flush loop.
FinalOrderClaimed == <<"product", "category", "customer", "review", "product_category", "product_similar">>

FinalOrder == TableOrder

\* One iteration of `for table in INSERT_STATEMENTS: flush(table)`.
FinalFlush ==
    /\ pc = "flushing"
    /\ Store(Flush(Cur, FinalOrder[fi]))
    /\ fi' = fi + 1
    /\ pc' = IF fi = Len(FinalOrder) THEN "postload" ELSE "flushing"
    /\ UNCHANGED <<input, rejects, pos, product_data, emitted, idSeen, lastRead, args, reachable, conn>>

\* POST_LOAD_STATEMENTS
PostLoadStatements ==
    <<"DELETE product_category asin", "DELETE product_category category_id",
      "DELETE product_similar asin", "DELETE product_similar similar_asin",
      "FK category parent", "FK review product", "FK review customer",
      "FK product_category product", "FK product_category category",
      "FK product_similar product", "FK product_similar similar",
      "INDEX review asin", "INDEX product_category category_id", "ANALYZE">>

Asins(d) == {r[1] : r \in d["product"]}

CategoryIds(d) == {r[1] : r \in d["category"]}

\* The four DELETE statements.
AfterDeletes(d) ==
    [d EXCEPT
       !["product_category"] = {r \in @ : r[1] \in Asins(d) /\ r[2] \in CategoryIds(d)},
       !["product_similar"] = {r \in @ : r[1] \in Asins(d) /\ r[2] \in Asins(d)}]

\* The first ALTER TABLE ... ADD CONSTRAINT that the rows violate, 0 if none.
FirstBrokenFk(d) ==
    IF \E r \in d["category"] : r[3] # <<>> /\ r[3][1] \notin CategoryIds(d) THEN 5
    ELSE IF \E r \in d["review"] : r[5] \notin Asins(d) THEN 6
    ELSE IF \E r \in d["review"] : r[6] \notin {c[1] : c \in d["customer"]} THEN 7
    ELSE 0

PostLoadLog(n) == [i \in 1..n |-> Stmt(PostLoadStatements[i], "", 0 - 1, 0 - 1)]

\* _apply_post_load_constraints(cur); conn.commit()
PostLoad ==
    /\ pc = "postload"
    /\ LET d == AfterDeletes(db)
           broken == FirstBrokenFk(d)
       IN  IF broken = 0
           THEN /\ db' = d
                /\ sqlLog' = sqlLog \o PostLoadLog(Len(PostLoadStatements))
                                    \o <<Stmt("COMMIT", "", 0 - 1, 0 - 1)>>
                /\ pc' = "done"
           ELSE /\ db' = db
                /\ sqlLog' = sqlLog \o PostLoadLog(broken)
                /\ pc' = "failed"
    /\ UNCHANGED <<buffers, counts, thresholds, flush_counters,
                   inserted_products, inserted_categories, inserted_customers,
                   inserted_product_categories, inserted_similars, inserted_reviews,
                   enq, dropped, progress, enqOrder>>
    /\ UNCHANGED <<input, rejects, pos, fi, product_data, emitted, idSeen, lastRead,
                   args, reachable, conn>>

\* ------------------------------------------------------------------ connect step
\* def get_conn(host, port, name, user, password)
GetConnParameters == <<"host", "port", "name", "user", "password">>

\* Python's binding of a call with npos positional arguments and the keyword
\* arguments kw to a signature without defaults, *args or **kwargs.
Binds(parameters, npos, kw) ==
    LET byKeyword == {parameters[i] : i \in (npos + 1)..Len(parameters)}
    IN  npos <= Len(parameters) /\ kw = byKeyword

\* get_conn called with npos positional arguments taken from a and the
\* keyword arguments kw: the call raises TypeError when it does not bind,
\* psycopg.connect(dsn) raises when the server is not reachable.
GetConn(a, npos, kw) ==
    IF ~Binds(GetConnParameters, npos, kw) THEN [state |-> "TypeError", dsn |-> <<>>]
    ELSE IF ~reachable THEN [state |-> "OperationalError", dsn |-> <<>>]
    ELSE [state |-> "open", dsn |-> <<a.host, a.port, a.name, a.user, a.pass>>]

NoConn == [state |-> "none", dsn |-> <<>>]

\* try: conn = get_conn(host, port, name, user, pass, autocommit=False)
\* except Exception: return 1
ConnectStep(prog) ==
    /\ pc = "start"
    /\ args.prog = prog
    /\ conn' = GetConn(args, 5, {"autocommit"})
    /\ pc' = IF conn'.state = "open" THEN "connected" ELSE "returned1"
    /\ UNCHANGED <<input, pos, fi, product_data, emitted, idSeen, lastRead, rejects,
                   args, reachable>>
    /\ UNCHANGED loaderVars

\* The connect step of the loader, tp1_3_2.main.
ConnectLoader == ConnectStep("tp1_3_2")

\* The connect step of the reporting stage, tp1_3_3.main.
ConnectDashboard == ConnectStep("tp1_3_3")

\* ------------------------------------------------------------------ inputs
SeqsUpTo(S, n) == UNION {[1..k -> S] : k \in 0..n}

RECURSIVE Concat(_)
Concat(ss) == IF ss = <<>> THEN <<>> ELSE Head(ss) \o Concat(Tail(ss))

\* Free-form inputs: every sequence of at most MaxLines lines of one group.
CategoryLines == {LId, LAsinA, LCategories2, LCategories1, LPathBooksFiction, LPathMusic, LBlank, LCategoriesBare}

ReviewLines == {LId, LAsinA, LReviews2, LReviews1, LReviewsBadAvg, LReviewC1, LReviewC2, LReviewBad}

FieldLines == {LId, LAsinB, LAsinEmpty, LTitle, LDiscontinued, LGroup, LSalesrank5, LSimilar0B}

FreeInputs ==
    SeqsUpTo(CategoryLines, MaxLines) \cup SeqsUpTo(ReviewLines, MaxLines)
        \cup SeqsUpTo(FieldLines, MaxLines)

\* Block inputs: at most MaxBlocks record blocks after the file header.
Blocks ==
    {<<LId, LAsinA, LSimilar2BC>>,
     <<LId, LAsinB, LTitle, LSimilar1A>>,
     <<LId, LAsinA, LSimilar2AB, LCategories1, LPathNovelsBooks>>,
     <<LId, LAsinA, LGroup, LSalesrank5, LCategories1, LPathBooksFiction>>,
     <<LId, LAsinB, LReviews2, LReviewC1, LReviewC2>>,
     <<LId, LAsinA, LBlank, LHeader, LCategories1, LPathRockRock, LReviews1, LReviewC1Again>>,
     <<LId, LSimilar1A, LCategories1, LPathRock, LReviews1, LReviewC2>>,
     <<LId, LAsinA, LDiscontinued>>,
     <<LId, LAsinB, LReviewsBadAvg, LReviewC1>>}

BlockInputs == {<<LHeader>> \o Concat(bs) : bs \in SeqsUpTo(Blocks, MaxBlocks)}

NoRejects == [t \in Tables |-> {}]

RejectChoices ==
    {NoRejects,
     [NoRejects EXCEPT !["product"] = {"B"}],
     [NoRejects EXCEPT !["product_similar"] = {<<"A", "A">>}],
     [NoRejects EXCEPT !["product_similar"] = {<<"A", "B">>, <<"A", "C">>}]}

\* The state main() builds before the read loop.
InitRun ==
    /\ pos = 1
    /\ fi = 0
    /\ product_data = <<>>
    /\ buffers = [t \in Tables |-> <<>>]
    /\ counts = [t \in Tables |-> 0]
    /\ thresholds = [t \in Tables |-> BATCH_SIZE]
    /\ flush_counters = [t \in Tables |-> 0]
    /\ inserted_products = {}
    /\ inserted_categories = {}
    /\ inserted_customers = {}
    /\ inserted_product_categories = {}
    /\ inserted_similars = {}
    /\ inserted_reviews = {}
    /\ db = [t \in Tables |-> {}]
    /\ sqlLog = <<>>
    /\ enq = [t \in Tables |-> <<>>]
    /\ dropped = [t \in Tables |-> <<>>]
    /\ progress = [t \in Tables |-> 0]
    /\ emitted = <<>>
    /\ idSeen = <<>>
    /\ lastRead = [k |-> "start", at |-> 0, declared |-> 0, taken |-> 0]
    /\ enqOrder = <<>>

\* The command lines of the two stages.
Hosts == {"db", "localhost"}

Ports == {5432, 5433}

Names == {"ecommerce", "postgres"}

Users == {"postgres", "loader"}

Passwords == {"postgres", ""}

CommandLines ==
    [prog : {"tp1_3_2", "tp1_3_3"}, host : Hosts, port : Ports, name : Names, user : Users,
     pass : Passwords]

LoaderArgs ==
    [prog |-> "tp1_3_2", host |-> "db", port |-> 5432, name |-> "ecommerce",
     user |-> "postgres", pass |-> "postgres"]

\* The loader specifications start where the read loop starts: the connect
\* step and the schema creation are behind, the connection is open.
Connected ==
    /\ args = LoaderArgs
    /\ reachable = TRUE
    /\ conn = [state |-> "open",
               dsn |-> <<LoaderArgs.host, LoaderArgs.port, LoaderArgs.name, LoaderArgs.user,
                         LoaderArgs.pass>>]

\* A stage is started: nothing is read, the database may or may not answer.
InitStart ==
    /\ args \in CommandLines
    /\ reachable \in BOOLEAN
    /\ conn = NoConn
    /\ input = <<>>
    /\ rejects = NoRejects
    /\ pc = "start"
    /\ InitRun

InitFree == input \in FreeInputs /\ rejects = NoRejects /\ pc = "reading" /\ Connected /\ InitRun

InitBlocks ==
    input \in BlockInputs /\ rejects \in RejectChoices /\ pc = "reading" /\ Connected /\ InitRun

Init == InitFree

Next ==
    \/ SkipBlank
    \/ ReadId
    \/ SkipNoRecord
    \/ ReadASIN
    \/ ReadTitle
    \/ ReadDiscontinued
    \/ ReadGroup
    \/ ReadSalesrank
    \/ ReadSimilar
    \/ ReadCategories
    \/ ReadReviews
    \/ IgnoreOther
    \/ EndOfStream
    \/ FinalFlush
    \/ PostLoad

\* The loader on free-form inputs.
Spec == Init /\ [][Next]_vars

\* The loader on inputs made of record blocks, with a database that may refuse rows.
SpecLoad == InitBlocks /\ [][Next]_vars

NextConnect ==
    \/ ConnectLoader
    \/ ConnectDashboard

\* The connect step of the two stages, on every command line.
SpecConnect == InitStart /\ [][NextConnect]_vars

\* ------------------------------------------------------------------ vocabulary of the claims
Range(q) == {q[i] : i \in 1..Len(q)}

Max(a, b) == IF a > b THEN a ELSE b

\* The rows of enq[t] that a flush has taken out of the buffer.
FlushedRows(t) == {enq[t][i] : i \in 1..(Len(enq[t]) - Len(buffers[t]))}

BufferedKeys(t) == {Key(t, r) : r \in Range(buffers[t])}

\* The records the extractor does not discard.
Kept == SelectSeq(emitted, LAMBDA pd : ~Falsy(pd.asin))

DeclaredAsins == {pd.asin : pd \in Range(Kept)}

\* Record a lists b among its similar ids.
DeclaresSimilar(a, b) == \E pd \in Range(Kept) : pd.asin = a /\ b \in Range(pd.similar)

SimilarTargets == UNION {Range(pd.similar) : pd \in Range(Kept)}

NoWriteFailure == rejects = NoRejects

\* C1: at the end of a run without fatal error, (A,B) is in product_similar iff
\* record A declared B, both are declared asins and A # B, and no error was
\* raised for any pair.
C1_SimilarPersistedIff ==
    (pc = "done" /\ NoWriteFailure) =>
        /\ \A a \in DeclaredAsins \cup SimilarTargets : \A b \in DeclaredAsins \cup SimilarTargets :
              <<a, b>> \in db["product_similar"]
                  <=> (DeclaresSimilar(a, b) /\ a \in DeclaredAsins /\ b \in DeclaredAsins /\ a # b)
        /\ dropped["product_similar"] = <<>>

\* C2: no committed product_category, review or product_similar row references
\* a product, category or customer row that is still in a buffer.
C2_NoCommittedRefToBuffered ==
    /\ \A r \in db["product_category"] :
          r[1] \notin BufferedKeys("product") /\ r[2] \notin BufferedKeys("category")
    /\ \A r \in db["review"] :
          r[5] \notin BufferedKeys("product") /\ r[6] \notin BufferedKeys("customer")
    /\ \A r \in db["product_similar"] :
          r[1] \notin BufferedKeys("product") /\ r[2] \notin BufferedKeys("product")

\* C3: whatever rows of a flushed batch the database refuses, exactly those
\* rows are absent once the flush has committed, they are the rows reported
\* as dropped, and the count grew by the number of rows that went in.
C3_FallbackLosesOnlyFailingRows ==
    pc \in {"reading", "flushing", "postload", "aborted"} =>
        \A t \in Tables :
            /\ db[t] = {r \in FlushedRows(t) : ~Rejected(t, r)}
            /\ Range(dropped[t]) = {r \in FlushedRows(t) : Rejected(t, r)}
            /\ counts[t] = Cardinality({r \in FlushedRows(t) : ~Rejected(t, r)})

\* A flush took the fallback path and one row of its batch failed while
\* another went in.
C3_Witness ==
    \E i \in 1..Len(sqlLog) : \E j \in 1..Len(sqlLog) :
        /\ i < j
        /\ sqlLog[i].op = "INSERT" /\ sqlLog[j].op = "INSERT_FAILED"
        /\ sqlLog[i].tbl = sqlLog[j].tbl /\ sqlLog[i].n = sqlLog[j].n
        /\ db[sqlLog[i].tbl] # {}

\* The keys of the rows appended to the buffer of t so far, in order.
EnqKeys(t) == [i \in 1..Len(enq[t]) |-> Key(t, enq[t][i])]

NoRepeat(q) == \A i \in 1..Len(q) : \A j \in 1..Len(q) : q[i] = q[j] => i = j

\* C4: each entity key is appended to its buffer at most once, and the
\* membership set of a table holds exactly the keys appended so far.
C4_EnqueuedAtMostOnce ==
    /\ \A t \in Tables : NoRepeat(EnqKeys(t))
    /\ Range(EnqKeys("product")) = inserted_products
    /\ Range(EnqKeys("category")) = inserted_categories
    /\ Range(EnqKeys("customer")) = inserted_customers
    /\ Range(EnqKeys("review")) = inserted_reviews
    /\ Range(EnqKeys("product_category")) = inserted_product_categories
    /\ Range(EnqKeys("product_similar")) = inserted_similars

\* Two closed records carried the same asin, category id, customer and
\* similarity pair.
C4_Witness ==
    \E i \in 1..Len(Kept) : \E j \in 1..Len(Kept) :
        /\ i < j
        /\ Kept[i].asin = Kept[j].asin
        /\ Kept[i].categories # <<>> /\ Kept[i].categories = Kept[j].categories
        /\ Kept[i].similar # <<>> /\ Kept[i].similar = Kept[j].similar
        /\ Len(enq["product"]) = 1

\* The category rows the paths of the kept records spell out, in stream order.
PathRows(path) ==
    LET numeric == SelectSeq([i \in 1..Len(path) |->
                                 [cid |-> path[i].cid, name |-> path[i].name,
                                  parent |-> IF i > 1 THEN DigitOpt(path[i - 1].cid) ELSE <<>>]],
                             LAMBDA x : IsDigit(x.cid))
    IN  [i \in 1..Len(numeric) |-> <<IntLit[numeric[i].cid], numeric[i].name, numeric[i].parent>>]

RECURSIVE PathsRows(_)
PathsRows(paths) == IF paths = <<>> THEN <<>> ELSE PathRows(Head(paths)) \o PathsRows(Tail(paths))

RECURSIVE CategoryOccurrences(_)
CategoryOccurrences(pds) ==
    IF pds = <<>> THEN <<>>
    ELSE PathsRows(Head(pds).categories) \o CategoryOccurrences(Tail(pds))

LastOccurrence(occ, id) ==
    occ[CHOOSE i \in 1..Len(occ) : occ[i][1] = id /\ \A j \in (i + 1)..Len(occ) : occ[j][1] # id]

FirstOccurrence(occ, id) ==
    occ[CHOOSE i \in 1..Len(occ) : occ[i][1] = id /\ \A j \in 1..(i - 1) : occ[j][1] # id]

\* C5: a category id is stored once, with the name and parent of its last
\* occurrence in the stream.
C5_CategoryLastWins ==
    (pc = "done" /\ NoWriteFailure) =>
        LET occ == CategoryOccurrences(Kept)
        IN  /\ {r[1] : r \in db["category"]} = {occ[i][1] : i \in 1..Len(occ)}
            /\ \A r \in db["category"] : r = LastOccurrence(occ, r[1])
            /\ Cardinality(db["category"]) = Cardinality({r[1] : r \in db["category"]})

\* C6: without write failures on products, the number of product rows
\* inserted equals the number of distinct non-empty asins of the records.
C6_ProductCount ==
    rejects["product"] = {} =>
        /\ counts["product"] + Len(buffers["product"]) = Cardinality(DeclaredAsins)
        /\ pc \in {"postload", "done", "failed"} =>
              /\ counts["product"] = Cardinality(DeclaredAsins)
              /\ Cardinality(db["product"]) = Cardinality(DeclaredAsins)
              /\ Asins(db) = DeclaredAsins

\* A finished run of three closed records, two of them with the same asin and
\* one without asin or with a second asin.
C6_Witness ==
    /\ pc = "done"
    /\ rejects["product"] = {}
    /\ Len(emitted) = 3
    /\ Cardinality(DeclaredAsins) = 2
    /\ Len(Kept) = 3

\* ------------------------------------------------------------------ parser claims
Closed == pc \notin {"reading", "aborted"}

CountedBlockAt(p) == input[p].k \in {"categories:", "reviews:"}

\* The last index of a non-empty set of positions.
Last(ps) == CHOOSE p \in ps : \A q \in ps : q <= p

\* The lines of record i: after its marker, before the next marker.
RecordLo(i) == idSeen[i]

RecordHi(i) == IF i < Len(idSeen) THEN idSeen[i + 1] ELSE Len(input) + 1

AsinLines(i) == {p \in (RecordLo(i) + 1)..(RecordHi(i) - 1) : input[p].k = "ASIN:"}

\* C7: one record per Id: line seen at dispatch level, in file order: an Id:
\* line closes the open record before opening a new one, lines before the
\* first Id: belong to no record, and end of stream closes the last record
\* exactly once.
C7_OneRecordPerIdMarker ==
    /\ \A i \in 1..Len(idSeen) :
          /\ input[idSeen[i]].k = "Id:"
          /\ idSeen[i] < pos
          /\ i > 1 => idSeen[i - 1] < idSeen[i]
    /\ Len(emitted) = IF Closed THEN Len(idSeen) ELSE Max(Len(idSeen) - 1, 0)
    /\ (product_data = <<>>) <=> (idSeen = <<>>)
    /\ idSeen = <<>> => \A t \in Tables : enq[t] = <<>>
    /\ \A i \in 1..Len(emitted) :
          /\ emitted[i].asin \in {NONE} \cup {input[p].text : p \in AsinLines(i)}
          /\ (\A p \in RecordLo(i)..(RecordHi(i) - 1) : ~CountedBlockAt(p)) =>
                emitted[i].asin = IF AsinLines(i) = {} THEN NONE ELSE input[Last(AsinLines(i))].text
    /\ (\A p \in 1..Len(input) : ~CountedBlockAt(p)) =>
          /\ \A p \in 1..(pos - 1) : input[p].k = "Id:" => p \in Range(idSeen)
          /\ Closed => Len(emitted) = Cardinality({p \in 1..Len(input) : input[p].k = "Id:"})

\* A finished run over a line that precedes the first Id: and two records
\* with different asins.
C7_Witness ==
    /\ pc = "done"
    /\ Len(emitted) = 2
    /\ input[1].k \notin {"Id:", "blank"}
    /\ emitted[1].asin # emitted[2].asin

\* The count a categories: line declares.
DeclaredPaths(line) ==
    IF line.toks = <<>> THEN 0
    ELSE IF line.toks[1] \in DOMAIN IntLit THEN Max(IntLit[line.toks[1]], 0) ELSE 0

\* C8: a categories: line declaring N consumes exactly the next N raw lines
\* as path lines whatever they hold (fewer only when the stream ends), none
\* of them is dispatched, and a short block leaves the record to be closed
\* normally by the end of the stream.
C8_CategoriesConsumesDeclared ==
    /\ [][(Reading /\ product_data # <<>> /\ Line.k = "categories:") =>
            LET got == pos' - pos - 1
                block == SubSeq(input, pos + 1, pos + got)
                pathLines == SelectSeq(block, LAMBDA l : l.k # "blank")
            IN  /\ got = Min(DeclaredPaths(Line), Len(input) - pos)
                /\ pc' = "reading"
                /\ emitted' = emitted /\ idSeen' = idSeen
                /\ enq' = enq /\ db' = db /\ buffers' = buffers
                /\ product_data' =
                       <<[product_data[1] EXCEPT
                            !.categories = @ \o [i \in 1..Len(pathLines) |-> pathLines[i].segs]]>>
                /\ got < DeclaredPaths(Line) => pos' = Len(input) + 1]_vars
    /\ [][(pc = "reading" /\ pos > Len(input) /\ product_data # <<>>) =>
            (emitted' = Append(emitted, product_data[1]) /\ pc' = "flushing")]_vars

\* A categories: 2 block that swallowed an Id: line and a blank line.
C8_Witness ==
    /\ lastRead.k = "categories:"
    /\ lastRead.declared = 2 /\ lastRead.taken = 2
    /\ input[lastRead.at + 1].k = "Id:"
    /\ input[lastRead.at + 2].k = "blank"
    /\ pos = lastRead.at + 3
    /\ Len(idSeen) = 1
    /\ Len(product_data[1].categories) = 1

\* The downloaded value of a reviews: line.
DeclaredReviews(line) == IF line.downloaded = "" THEN 0 ELSE IntLit[line.downloaded]

\* C9: a reviews: line with downloaded value D consumes exactly the next D
\* raw lines (fewer only at end of stream); a line outside the review
\* grammar yields no entry and aborts nothing, a matching line yields one
\* entry, in line order.
C9_ReviewsConsumesDownloaded ==
    [][(Reading /\ product_data # <<>> /\ Line.k = "reviews:") =>
          LET got == pos' - pos - 1
              block == SubSeq(input, pos + 1, pos + got)
              matching == SelectSeq(block, LAMBDA l : l.rev # <<>>)
          IN  /\ got = Min(DeclaredReviews(Line), Len(input) - pos)
              /\ pc' = "reading"
              /\ emitted' = emitted /\ idSeen' = idSeen
              /\ product_data'[1].reviews =
                     product_data[1].reviews \o [i \in 1..Len(matching) |-> matching[i].rev[1]]]_vars

\* The final flush order the claim states.
FlushedSoFar(order) == {order[k] : k \in 1..(fi - 1)}

CountOps(op) == Cardinality({i \in 1..Len(sqlLog) : sqlLog[i].op = op})

OuterSavepoints == Cardinality({i \in 1..Len(sqlLog) : sqlLog[i].op = "SAVEPOINT" /\ sqlLog[i].r = 0 - 1})

PostLoadOps == Range(PostLoadStatements)

\* C10 as stated: final flushes in the order product, category, customer,
\* review, product_category, product_similar whatever the buffer sizes, and
\* only then the post-load statements, closed by a single commit.
C10_FinalFlushOrderClaimed ==
    /\ pc = "flushing" =>
          \A t \in FlushedSoFar(<<"product", "category", "customer", "review",
                                  "product_category", "product_similar">>) : buffers[t] = <<>>
    /\ pc \in {"postload", "done", "failed"} => \A t \in Tables : buffers[t] = <<>>
    /\ pc \in {"reading", "aborted", "flushing", "postload"} =>
          \A i \in 1..Len(sqlLog) : sqlLog[i].op \notin PostLoadOps
    /\ pc = "done" =>
          /\ sqlLog[Len(sqlLog)].op = "COMMIT"
          /\ \A i \in 1..Len(PostLoadStatements) :
                sqlLog[Len(sqlLog) - 1 - Len(PostLoadStatements) + i].op = PostLoadStatements[i]

\* C10 as the code has it: final flushes in the order product, category,
\* product_category, customer, review, product_similar, each non-empty flush
\* with its own commit; the post-load statements come only after the six
\* flushes and are followed by a single commit.
C10_FinalFlushOrder ==
    /\ pc = "flushing" =>
          \A t \in FlushedSoFar(<<"product", "category", "product_category", "customer",
                                  "review", "product_similar">>) : buffers[t] = <<>>
    /\ pc \in {"postload", "done", "failed"} => \A t \in Tables : buffers[t] = <<>>
    /\ pc \in {"reading", "aborted", "flushing", "postload"} =>
          \A i \in 1..Len(sqlLog) : sqlLog[i].op \notin PostLoadOps
    /\ CountOps("COMMIT") = OuterSavepoints + (IF pc = "done" THEN 1 ELSE 0)
    /\ pc = "done" =>
          LET n == Len(sqlLog)
              k == Len(PostLoadStatements)
          IN  /\ n > k
              /\ sqlLog[n].op = "COMMIT"
              /\ \A i \in 1..k : sqlLog[n - 1 - k + i].op = PostLoadStatements[i]
              /\ \A i \in 1..(n - 1 - k) : sqlLog[i].op \notin PostLoadOps

\* A finished run whose final loop flushed a product, a customer, a review
\* and a product_category row.
C10_Witness ==
    /\ pc = "done"
    /\ \A t \in {"product", "customer", "review", "product_category"} :
          \E i \in 1..Len(sqlLog) : sqlLog[i].op = "COMMIT" /\ sqlLog[i].tbl = t
    /\ \A t \in Tables : flush_counters[t] <= 1

\* ------------------------------------------------------------------ abort of the read loop
\* C11: when processing the input body fails after flushes have committed, the
\* run ends with outcome 1 (pc = "aborted"): the failing step rolls nothing
\* back, the rows of the earlier flushes are the persisted rows, no final flush
\* and no post-load statement is executed afterwards, and the rows still in
\* the buffers are not persisted.
C11_AbortKeepsCommitted ==
    /\ [](pc = "aborted" =>
            /\ fi = 0
            /\ \A i \in 1..Len(sqlLog) : sqlLog[i].op \notin PostLoadOps
            /\ sqlLog # <<>> => sqlLog[Len(sqlLog)].op = "COMMIT"
            /\ \A t \in Tables :
                  /\ db[t] = {r \in FlushedRows(t) : ~Rejected(t, r)}
                  /\ \A r \in Range(buffers[t]) : r \notin db[t]
                  /\ Len(sqlLog) > 0 =>
                        flush_counters[t] =
                            Cardinality({i \in 1..Len(sqlLog) :
                                            sqlLog[i].op = "COMMIT" /\ sqlLog[i].tbl = t}))
    /\ [][pc' = "aborted" =>
            /\ pc = "reading"
            /\ db' = db /\ sqlLog' = sqlLog /\ buffers' = buffers /\ counts' = counts
            /\ emitted' = emitted]_vars
    /\ [][pc # "aborted"]_vars

\* The run aborted after a flush had committed rows, with rows left in a buffer.
C11_Witness ==
    /\ pc = "aborted"
    /\ \E t \in Tables : db[t] # {}
    /\ \E t \in Tables : buffers[t] # <<>>
    /\ \E i \in 1..Len(sqlLog) : sqlLog[i].op = "COMMIT"

\* ------------------------------------------------------------------ extractor claims
\* The step that hands the open record to _insert_product.
ClosingStep == pc = "reading" /\ product_data # <<>> /\ (pos > Len(input) \/ Line.k = "Id:")

\* C12: closing a record whose asin is absent or empty appends no row to any
\* buffer, changes no membership set and triggers no flush, whatever
\* categories, similar ids and reviews the record carries.
C12_NoAsinNoChange ==
    [][(ClosingStep /\ Falsy(product_data[1].asin)) =>
          /\ emitted' = Append(emitted, product_data[1])
          /\ buffers' = buffers /\ enq' = enq
          /\ inserted_products' = inserted_products
          /\ inserted_categories' = inserted_categories
          /\ inserted_customers' = inserted_customers
          /\ inserted_product_categories' = inserted_product_categories
          /\ inserted_similars' = inserted_similars
          /\ inserted_reviews' = inserted_reviews
          /\ flush_counters' = flush_counters /\ sqlLog' = sqlLog /\ db' = db
          /\ counts' = counts /\ thresholds' = thresholds]_vars

\* A record without asin that carries a category path, a similar id and a
\* review has just been closed, after another record had filled a buffer.
C12_Witness ==
    /\ lastRead.k \in {"Id:", "eof"}
    /\ emitted # <<>>
    /\ LET pd == emitted[Len(emitted)]
       IN  /\ Falsy(pd.asin)
           /\ pd.categories # <<>> /\ pd.similar # <<>> /\ pd.reviews # <<>>
    /\ \E t \in Tables : buffers[t] # <<>>

\* Record i has a `discontinued product` line among its dispatched lines.
HasDiscontinued(i) ==
    \E p \in (RecordLo(i) + 1)..(RecordHi(i) - 1) : input[p].k = "discontinued"

\* Record i is the first closed record with its asin: the one whose product
\* row is enqueued.
FirstOfAsin(i) == ~Falsy(emitted[i].asin) /\ \A j \in 1..(i - 1) : emitted[j].asin # emitted[i].asin

\* C13: the product row of a record with a `discontinued product` line has the
\* placeholder title and no substituted group or salesrank when the record
\* set none; the row of a record without that line has the defaults.
C13_DiscontinuedKeepsNulls ==
    \A i \in 1..Len(emitted) :
        FirstOfAsin(i) =>
            \E r \in Range(enq["product"]) :
                /\ r[1] = emitted[i].asin
                /\ IF HasDiscontinued(i)
                   THEN /\ r[2] = "Discontinued product"
                        /\ emitted[i].group = NONE => r[3] # "Unknown"
                        /\ emitted[i].salesrank = <<>> => r[4] # 0
                   ELSE /\ Falsy(emitted[i].group) => r[3] = "Unknown"
                        /\ emitted[i].salesrank = <<>> => r[4] = 0

\* The closed records that carry asin a, by index.
RecordsOf(a) == {i \in 1..Len(emitted) : emitted[i].asin = a}

\* C14: when exactly two records carry an asin and only the second has a
\* `discontinued product` line, the product row persisted at the end of the
\* run has the placeholder title and the numeric fields of the first record.
C14_DiscontinuedSecondRecord ==
    (pc = "done" /\ rejects["product"] = {}) =>
        \A i \in 1..Len(emitted) : \A j \in 1..Len(emitted) :
            (/\ i < j
             /\ ~Falsy(emitted[i].asin)
             /\ RecordsOf(emitted[i].asin) = {i, j}
             /\ ~HasDiscontinued(i) /\ HasDiscontinued(j)) =>
                \E r \in db["product"] :
                    /\ r[1] = emitted[i].asin
                    /\ r[2] = "Discontinued product"
                    /\ r[4] = NormalizeOpt(emitted[i].salesrank)
                    /\ r[5] = NormalizeOpt(emitted[i].total_reviews)
                    /\ r[6] = NormalizeOpt(emitted[i].downloaded)
                    /\ r[7] = NormalizeOpt(emitted[i].avg_rating)

\* The category paths of the records the extractor keeps, in stream order.
RECURSIVE AllPaths(_)
AllPaths(pds) == IF pds = <<>> THEN <<>> ELSE Head(pds).categories \o AllPaths(Tail(pds))

Cids(path) == {path[m].cid : m \in 1..Len(path)}

\* Path n of the stream has only numeric ids, all different and none of them
\* in an earlier path.
FreshPath(paths, n) ==
    /\ \A m \in 1..Len(paths[n]) : IsDigit(paths[n][m].cid)
    /\ Cardinality(Cids(paths[n])) = Len(paths[n])
    /\ \A e \in 1..(n - 1) : Cids(paths[e]) \cap Cids(paths[n]) = {}

\* The numeric leaf ids of the paths of one record.
LeafIds(pd) ==
    {IntLit[pd.categories[q][Len(pd.categories[q])].cid] :
        q \in {x \in 1..Len(pd.categories) : IsDigit(pd.categories[x][Len(pd.categories[x])].cid)}}

\* C15: a path of k numeric ids not seen before gives k consecutive category
\* rows in root-to-leaf order, the root with parent null and every other
\* segment with the id before it as parent; the product_category rows are
\* exactly one per product and leaf id of one of the product's own paths.
C15_PathRowsAndLeafLink ==
    /\ LET paths == AllPaths(Kept)
           cat == enq["category"]
       IN  \A n \in 1..Len(paths) :
              FreshPath(paths, n) =>
                  \E o \in 0..Len(cat) :
                      /\ o + Len(paths[n]) <= Len(cat)
                      /\ \A m \in 1..Len(paths[n]) :
                            cat[o + m] =
                                <<IntLit[paths[n][m].cid], paths[n][m].name,
                                  IF m = 1 THEN <<>> ELSE <<IntLit[paths[n][m - 1].cid]>> >>
    /\ Range(enq["product_category"]) =
           UNION {{<<pd.asin, leaf>> : leaf \in LeafIds(pd)} : pd \in Range(Kept)}
    /\ NoRepeat(enq["product_category"])

\* A finished run in which one product had a path of two new ids and a second
\* path over the same ids with the other one as leaf.
C15_Witness ==
    /\ pc = "done"
    /\ Len(enq["category"]) = 2
    /\ enq["category"][1][3] = <<>>
    /\ enq["category"][2][3] = <<enq["category"][1][1]>>
    /\ Len(enq["product_category"]) = 2
    /\ Len(AllPaths(Kept)) >= 2

\* ------------------------------------------------------------------ similar: and reviews: lines
\* The similar list the claim gives a `similar:` line with tokens toks after
\* the keyword: the count is 0 when absent, non-numeric or not positive.
ClaimedSimilar(toks) ==
    LET n == IF toks = <<>> THEN 0
             ELSE IF toks[1] \in DOMAIN IntLit /\ IntLit[toks[1]] > 0 THEN IntLit[toks[1]]
             ELSE 0
    IN  SubSeq(toks, 2, Min(1 + n, Len(toks)))

\* C16: a `similar:` line sets the record's similar list to the N tokens that
\* follow the declared count N (fewer if the line has fewer), and to the
\* empty list when the count is absent, non-numeric or zero.
C16_SimilarTakesDeclared ==
    [][InRecord("similar:") => product_data'[1].similar = ClaimedSimilar(Line.toks)]_vars

\* C17: a similarity pair is appended to the product_similar buffer only once
\* both of its endpoints have been inserted as products, so every buffered or
\* persisted pair has both endpoints among the products seen, and a pair whose
\* target never appears in the stream is never enqueued.
C17_SimilarWaitsForTarget ==
    /\ \A r \in Range(buffers["product_similar"]) \cup db["product_similar"] :
          r[1] \in inserted_products /\ r[2] \in inserted_products
    /\ Closed => \A r \in Range(enq["product_similar"]) : r[2] \in DeclaredAsins

\* C18: no pair whose two endpoints are the same asin is ever appended to the
\* product_similar buffer or persisted.
C18_NoSelfPair ==
    /\ \A r \in Range(enq["product_similar"]) : r[1] # r[2]
    /\ \A r \in db["product_similar"] : r[1] # r[2]

\* The numeric category ids of the paths of the kept records.
NumericCids == UNION {{IntLit[c] : c \in {x \in Cids(path) : IsDigit(x)}} : path \in Range(AllPaths(Kept))}

\* C19: no anomaly inside a record aborts the run: after a `reviews:` header
\* each of total, downloaded and avg rating that is missing or malformed is
\* absent in the record and reading goes on after the lines the header asked
\* for; a path segment with a non-numeric id gives no category row.
C19_ParseAnomaliesNotFatal ==
    /\ pc # "aborted"
    /\ lastRead.k = "reviews:" =>
          LET hdr == input[lastRead.at]
          IN  /\ product_data[1].total_reviews = IntGroup(hdr.total)
              /\ product_data[1].downloaded = IntGroup(hdr.downloaded)
              /\ product_data[1].avg_rating =
                     IF hdr.avg \in DOMAIN FloatLit THEN <<FloatLit[hdr.avg]>> ELSE <<>>
              /\ pos = lastRead.at + 1 + lastRead.taken
    /\ Range(EnqKeys("category")) = NumericCids

\* ------------------------------------------------------------------ enqueue and flush
\* The tables the final loop has already flushed.
FinallyFlushed ==
    IF pc = "flushing" THEN FlushedSoFar(FinalOrder)
    ELSE IF pc \in {"postload", "done", "failed"} THEN Tables
    ELSE {}

LogIndexes(op, t) == {i \in 1..Len(sqlLog) : sqlLog[i].op = op /\ sqlLog[i].tbl = t}

\* The flushes of t that found rows in the buffer, from the rows appended.
FlushesNeeded(t) == (Len(enq[t]) + BATCH_SIZE - 1) \div BATCH_SIZE

\* C20: a buffer never holds BATCH_SIZE rows once an enqueue has returned,
\* since the enqueue that makes it reach BATCH_SIZE flushes it; a flush whose
\* bulk statement succeeds is savepoint, bulk statement, release, commit, it
\* adds the batch length to the count and empties the buffer; a flush of an
\* empty buffer adds no savepoint, no commit and changes no count.
C20_EnqueueAndFlush ==
    \A t \in Tables :
        /\ Len(buffers[t]) < BATCH_SIZE
        /\ Cardinality(LogIndexes("COMMIT", t)) = flush_counters[t]
        /\ Cardinality({i \in LogIndexes("SAVEPOINT", t) : sqlLog[i].r = 0 - 1}) = flush_counters[t]
        /\ \A i \in LogIndexes("BATCH", t) :
              /\ sqlLog[i - 1].op = "SAVEPOINT" /\ sqlLog[i - 1].n = sqlLog[i].n
              /\ sqlLog[i + 1].op = "RELEASE" /\ sqlLog[i + 1].n = sqlLog[i].n
              /\ sqlLog[i + 2].op = "COMMIT" /\ sqlLog[i + 2].tbl = t
        /\ t \in FinallyFlushed =>
              /\ buffers[t] = <<>>
              /\ flush_counters[t] = FlushesNeeded(t)
        /\ t \notin FinallyFlushed =>
              flush_counters[t] * BATCH_SIZE = Len(enq[t]) - Len(buffers[t])
        /\ rejects[t] = {} =>
              /\ counts[t] = Len(enq[t]) - Len(buffers[t])
              /\ Cardinality(LogIndexes("BATCH", t)) = flush_counters[t]
              /\ pc # "done" => db[t] = FlushedRows(t)

\* A finished run with no refused row in which one buffer was flushed when it
\* reached BATCH_SIZE and was empty at the final flush, and another was
\* flushed by the final loop only.
C20_Witness ==
    /\ pc = "done"
    /\ rejects = NoRejects
    /\ \E t \in Tables : Len(enq[t]) = BATCH_SIZE /\ flush_counters[t] = 1
    /\ \E t \in Tables : Len(enq[t]) = 1 /\ flush_counters[t] = 1
    /\ \E t \in Tables : Len(enq[t]) = 0 /\ flush_counters[t] = 0

\* ------------------------------------------------------------------ connect step
\* C21: the connection factory accepts the arguments the two stages pass, so
\* with a reachable database the connect step ends with an open connection
\* and the run goes on; the run ends at the connect step with outcome 1 only
\* when the connection cannot be established.
C21_ConnectProceedsWhenReachable ==
    pc # "start" =>
        /\ reachable => (conn.state = "open" /\ pc = "connected")
        /\ pc = "returned1" => ~reachable

\* ------------------------------------------------------------------ category forest
\* The parent links of the category rows appended so far: <<id, parent id>>.
ParentLinks == {<<r[1], r[3][1]>> : r \in {x \in Range(enq["category"]) : x[3] # <<>>}}

\* C22: every category row appended with a parent names an id that was
\* appended strictly earlier and is not its own id, and the parent links
\* have no cycle: every non-empty set of ids has a member with no parent in
\* the set.
C22_CategoryForest ==
    LET cat == enq["category"]
        ids == {cat[i][1] : i \in 1..Len(cat)}
    IN  /\ \A i \in 1..Len(cat) :
              cat[i][3] # <<>> =>
                  /\ cat[i][3][1] # cat[i][1]
                  /\ \E j \in 1..(i - 1) : cat[j][1] = cat[i][3][1]
        /\ \A S \in SUBSET ids :
              S # {} => \E x \in S : \A l \in ParentLinks : l[1] = x => l[2] \notin S

\* A finished run over a path that repeats an id and two paths that list the
\* same two categories in opposite orders.
C22_Witness ==
    /\ pc = "done"
    /\ \E n \in 1..Len(AllPaths(Kept)) : Cardinality(Cids(AllPaths(Kept)[n])) < Len(AllPaths(Kept)[n])
    /\ \E n \in 1..Len(AllPaths(Kept)) : \E e \in 1..Len(AllPaths(Kept)) :
          /\ Len(AllPaths(Kept)[n]) = 2 /\ Len(AllPaths(Kept)[e]) = 2
          /\ AllPaths(Kept)[n][1].cid = AllPaths(Kept)[e][2].cid
          /\ AllPaths(Kept)[n][2].cid = AllPaths(Kept)[e][1].cid
          /\ AllPaths(Kept)[n][1].cid # AllPaths(Kept)[n][2].cid
    /\ Cardinality(ParentLinks) = 2

\* ------------------------------------------------------------------ progress and conservation
\* C23: for every table the progress lines logged so far number the running
\* count divided by the batch size, rounded down, and the next threshold is
\* the smallest multiple of the batch size strictly greater than the count.
C23_ProgressPerThreshold ==
    \A t \in Tables :
        /\ progress[t] = counts[t] \div BATCH_SIZE
        /\ thresholds[t] = (counts[t] \div BATCH_SIZE + 1) * BATCH_SIZE
        /\ thresholds[t] > counts[t] /\ thresholds[t] - BATCH_SIZE <= counts[t]

\* A table whose count passed a threshold and then grew by less than a batch,
\* and a table whose flush raised no line.
C23_Witness ==
    /\ \E t \in Tables :
          /\ counts[t] > BATCH_SIZE /\ counts[t] % BATCH_SIZE # 0
          /\ progress[t] = 1 /\ flush_counters[t] = 2
    /\ \E t \in Tables : flush_counters[t] = 1 /\ progress[t] = 0

\* C24: for every table the rows appended so far number the running count
\* plus the rows in the buffer plus the rows the per-row fallback dropped; a
\* dropped row was tried once by the fallback and its key is never appended
\* again, even when later records carry it.
C24_RowConservation ==
    \A t \in Tables :
        /\ Len(enq[t]) = counts[t] + Len(buffers[t]) + Len(dropped[t])
        /\ Cardinality(LogIndexes("INSERT_FAILED", t)) = Len(dropped[t])
        /\ \A d \in 1..Len(dropped[t]) :
              /\ Cardinality({i \in 1..Len(enq[t]) : Key(t, enq[t][i]) = Key(t, dropped[t][d])}) = 1
              /\ dropped[t][d] \notin Range(buffers[t])
              /\ dropped[t][d] \notin db[t]

\* A finished run in which the product row of an asin was dropped by the
\* fallback, a row of the same batch went in, and a later record carried the
\* dropped asin again.
C24_Witness ==
    /\ pc = "done"
    /\ counts["product"] > 0
    /\ \E d \in 1..Len(dropped["product"]) :
          Cardinality({i \in 1..Len(Kept) : Kept[i].asin = dropped["product"][d][1]}) >= 2

\* ------------------------------------------------------------------ savepoints
SameName(a, b) == SavepointName(a) = SavepointName(b)

\* The statements of the flushes, by index in the log.
SavepointsAt == {i \in 1..Len(sqlLog) : sqlLog[i].op = "SAVEPOINT"}

FlushCommitsAt == {i \in 1..Len(sqlLog) : sqlLog[i].op = "COMMIT" /\ sqlLog[i].tbl \in Tables}

\* The index of the RELEASE of the outer savepoint of flush n of table t, 0 if none.
OuterReleaseAt(t, n) ==
    LET at == {i \in 1..Len(sqlLog) :
                  sqlLog[i].op = "RELEASE" /\ sqlLog[i].tbl = t /\ sqlLog[i].n = n
                      /\ sqlLog[i].r = 0 - 1}
    IN  IF at = {} THEN 0 ELSE CHOOSE i \in at : TRUE

\* C25: at every point of a run, every flush that found rows ends with
\* exactly one commit, which directly follows the release of the flush's outer savepoint; every row
\* savepoint of the flush was released or rolled back to before that release;
\* no savepoint name is used twice; the flush leaves the table's buffer
\* empty, so the buffer holds only the rows appended since the last flush.
C25_FlushCommitsOnceNoOpenSavepoint ==
    [](/\ \A i \in SavepointsAt : \A j \in SavepointsAt : SameName(sqlLog[i], sqlLog[j]) => i = j
       /\ \A i \in SavepointsAt :
             LET sp == sqlLog[i]
                 rel == OuterReleaseAt(sp.tbl, sp.n)
             IN  /\ rel > i
                 /\ rel < Len(sqlLog)
                 /\ sqlLog[rel + 1].op = "COMMIT" /\ sqlLog[rel + 1].tbl = sp.tbl
                 /\ sqlLog[rel + 1].n = sp.n
                 /\ \A k \in i..rel : sqlLog[k].op # "COMMIT"
                 /\ sp.r >= 0 =>
                       \E k \in (i + 1)..(rel - 1) :
                           sqlLog[k].op \in {"RELEASE", "ROLLBACK TO"} /\ SameName(sqlLog[k], sp)
       /\ \A c \in FlushCommitsAt :
             /\ c > 1 /\ sqlLog[c - 1].op = "RELEASE" /\ sqlLog[c - 1].r = 0 - 1
             /\ sqlLog[c - 1].tbl = sqlLog[c].tbl /\ sqlLog[c - 1].n = sqlLog[c].n
             /\ \A d \in FlushCommitsAt :
                   (sqlLog[d].tbl = sqlLog[c].tbl /\ sqlLog[d].n = sqlLog[c].n) => d = c
       /\ \A t \in Tables :
             /\ Cardinality({c \in FlushCommitsAt : sqlLog[c].tbl = t}) = flush_counters[t]
             /\ t \in FinallyFlushed => buffers[t] = <<>>
             /\ t \notin FinallyFlushed =>
                   buffers[t] = SubSeq(enq[t], BATCH_SIZE * flush_counters[t] + 1, Len(enq[t])))

\* A run with a flush on the bulk path and a flush on the fallback path in
\* which one row savepoint was released and another rolled back to.
C25_Witness ==
    /\ pc = "done"
    /\ \E i \in 1..Len(sqlLog) : sqlLog[i].op = "BATCH"
    /\ \E i \in 1..Len(sqlLog) : \E j \in 1..Len(sqlLog) :
          /\ sqlLog[i].op = "RELEASE" /\ sqlLog[i].r >= 0
          /\ sqlLog[j].op = "ROLLBACK TO" /\ sqlLog[j].r >= 0
          /\ sqlLog[i].tbl = sqlLog[j].tbl /\ sqlLog[i].n = sqlLog[j].n

\* ------------------------------------------------------------------ order of extraction
\* The indexes before i at which a row of table t with key k was appended.
AppendedBefore(i, t, k) ==
    \E j \in 1..(i - 1) : enqOrder[j][1] = t /\ Key(t, enqOrder[j][2]) = k

\* C26: within the extraction of one record the product row, when one is
\* appended, is appended before every other row of the record; a
\* category row comes after the row of its parent, a product_category row
\* after the product row of its asin and the category row of its leaf (so
\* after every category row of its path), a similarity row after the product row of its
\* source, a review row after the product row of its asin and the customer
\* row of its customer; so every buffered review, product_category and
\* similarity row has its source asin in inserted_products.
C26_ExtractionOrder ==
    /\ [](/\ \A i \in 1..Len(enqOrder) :
                LET t == enqOrder[i][1]
                    r == enqOrder[i][2]
                IN  /\ t = "product_category" =>
                          AppendedBefore(i, "product", r[1]) /\ AppendedBefore(i, "category", r[2])
                    /\ t = "category" =>
                          (r[3] # <<>> => AppendedBefore(i, "category", r[3][1]))
                    /\ t = "product_similar" => AppendedBefore(i, "product", r[1])
                    /\ t = "review" =>
                          AppendedBefore(i, "product", r[5]) /\ AppendedBefore(i, "customer", r[6])
          /\ \A r \in Range(buffers["product_category"]) : r[1] \in inserted_products
          /\ \A r \in Range(buffers["product_similar"]) : r[1] \in inserted_products
          /\ \A r \in Range(buffers["review"]) : r[5] \in inserted_products)
    /\ [][ClosingStep =>
            /\ Len(enqOrder') >= Len(enqOrder)
            /\ SubSeq(enqOrder', 1, Len(enqOrder)) = enqOrder
            /\ \A i \in (Len(enqOrder) + 1)..Len(enqOrder') :
                  enqOrder'[i][1] = "product" =>
                      /\ i = Len(enqOrder) + 1
                      /\ enqOrder'[i][2][1] = product_data[1].asin]_vars

\* One record gave, in this order, its product row, a category row, a
\* product_category row, a customer row and a review row.
C26_Witness ==
    /\ Len(emitted) = 1
    /\ Len(enqOrder) >= 5
    /\ enqOrder[1][1] = "product"
    /\ \E c \in 2..Len(enqOrder) : \E l \in 2..Len(enqOrder) : \E u \in 2..Len(enqOrder) :
          \E v \in 2..Len(enqOrder) :
              /\ c < l /\ l < u /\ u < v
              /\ enqOrder[c][1] = "category" /\ enqOrder[l][1] = "product_category"
              /\ enqOrder[u][1] = "customer" /\ enqOrder[v][1] = "review"

\* ------------------------------------------------------------------ a repeated asin
\* The review keys record pd gives: one per review with a customer and a date.
ReviewKeysOf(pd) ==
    {<<pd.asin, pd.reviews[q].customer, pd.reviews[q].date>> :
        q \in {x \in 1..Len(pd.reviews) :
                  ~Falsy(pd.reviews[x].customer) /\ ~Falsy(pd.reviews[x].date)}}

\* C27: an asin has one product row, the row of the first record that
\* carries it, however many records repeat it; the leaf links, similar ids
\* and reviews of every record of the asin, the later ones included, are
\* appended for that asin, each key once.
C27_RepeatedAsin ==
    /\ \A i \in 1..Len(emitted) :
          ~Falsy(emitted[i].asin) =>
              LET pd == emitted[i]
              IN  /\ FirstOfAsin(i) =>
                        {r \in Range(enq["product"]) : r[1] = pd.asin}
                            = {EnsureProductDefaults(pd)[1]}
                  /\ \A leaf \in LeafIds(pd) :
                        <<pd.asin, leaf>> \in Range(enq["product_category"])
                  /\ \A m \in 1..Len(pd.similar) :
                        pd.similar[m] # "" =>
                            <<pd.asin, pd.similar[m]>> \in Range(enq["product_similar"])
                  /\ ReviewKeysOf(pd) \subseteq Range(EnqKeys("review"))
    /\ \A t \in Tables : NoRepeat(EnqKeys(t))

\* A finished run in which the first record of an asin was followed by a
\* record of the same asin with other scalar fields, a similar id and a leaf
\* the first did not have, and by one with a review.
C27_Witness ==
    /\ pc = "done"
    /\ \E i \in 1..Len(emitted) : \E j \in 1..Len(emitted) : \E k \in 1..Len(emitted) :
          /\ FirstOfAsin(i) /\ i < j /\ i < k
          /\ emitted[j].asin = emitted[i].asin /\ emitted[k].asin = emitted[i].asin
          /\ EnsureProductDefaults(emitted[j]) # EnsureProductDefaults(emitted[i])
          /\ ~(Range(emitted[j].similar) \subseteq Range(emitted[i].similar))
          /\ ~(LeafIds(emitted[j]) \subseteq LeafIds(emitted[i]))
          /\ ReviewKeysOf(emitted[i]) = {} /\ ReviewKeysOf(emitted[k]) # {}

====
